---- MODULE Spec2Model ----
\* Revenue ETL: the live endpoint (server.js), the lookup endpoint (server.js) and
\* the batch data processor (data_processor.js, listed in README.md from line 273)
\* working on one users_revenue table.
EXTENDS Integers, Sequences, FiniteSets, TLC

\* ------------------------------------------------------------------ bounds
\* live requests in flight in one behaviour
MaxLive == 2
\* lines of the event log in the batch-only specification
MaxLines == 3
\* lines of the event log when a batch run interleaves with live requests
MixLines == 1
MaxNew == 4

\* ------------------------------------------------------------ JS values
\* a string-valued field that is absent (userId, name, the Authorization header)
Undefined == "undefined"
\* the number-valued field: a number, undefined when absent, NaN from -undefined
Num(n) == [num |-> n]
UndefinedValue == [undefined |-> TRUE]
NaN == [nan |-> TRUE]
IsNum(v) == DOMAIN v = {"num"}

Users == {"u1", "u2"}

\* the status codes the handlers send
Ok200 == 200
Unauthorized401 == 401
NotFound404 == 404
Error500 == 500

Ev(u, n, v) == [userId |-> u, name |-> n, value |-> v]

\* const { userId, name, value } = event: an absent field reads as undefined
HasMissing(event) ==
    \/ event.userId = Undefined
    \/ event.name = Undefined
    \/ event.value = UndefinedValue

\* ------------------------------------------------------------ the delta rule
\* unary minus of JS: -undefined is NaN
Neg(v) == IF IsNum(v) THEN Num(0 - v.num) ELSE NaN

\* mutant: the sign of the subtraction is lost
RevenueChangeUnsigned(name, value) == value

\* mutant: only a subtraction is negated, any other kind is added
RevenueChangeSubtractOnly(name, value) ==
    IF name = "subtract_revenue" THEN Neg(value) ELSE value

\* const revenueChange = name === "add_revenue" ? value : -value;
RevenueChange(name, value) ==
    IF name = "add_revenue" THEN value ELSE Neg(value)

\* the parameters [userId, revenueChange] handed to dbConnection.query
QueryParams(event) ==
    [userId |-> event.userId, delta |-> RevenueChange(event.name, event.value)]

\* ------------------------------------------------------------ the store
\* users_revenue(user_id, revenue): a key and an integer column, both set, so a
\* statement whose user id is null or whose delta is null or NaN is rejected
StoreAccepts(p) == p.userId \in Users /\ IsNum(p.delta)

\* mutant: the upsert overwrites the row instead of incrementing it
UpsertOverwrite(t, userId, delta) == [t EXCEPT ![userId] = <<delta>>]

\* mutant: the increment is applied to every row, not to the row of the user
UpsertEveryRow(t, userId, delta) ==
    [u \in DOMAIN t |->
        IF t[u] = <<>> THEN (IF u = userId THEN <<delta>> ELSE <<>>)
        ELSE <<t[u][1] + delta>>]

\* mutant: ON CONFLICT DO NOTHING, a user's second event is dropped
UpsertDoNothing(t, userId, delta) ==
    [t EXCEPT ![userId] = IF @ = <<>> THEN <<delta>> ELSE @]

\* INSERT ... VALUES ($1, $2) ON CONFLICT (user_id)
\*   DO UPDATE SET revenue = users_revenue.revenue + $2
\* a user's rows are <<>> (no row) or <<revenue>>
Upsert(t, userId, delta) ==
    [t EXCEPT ![userId] = IF @ = <<>> THEN <<delta>> ELSE <<@[1] + delta>>]

\* mutant: the lookup reports a missing row as a zero balance
SelectRevenueZero(t, userId) == IF t[userId] = <<>> THEN <<0>> ELSE t[userId]

\* SELECT revenue FROM users_revenue WHERE user_id = $1  (result.rows)
SelectRevenue(t, userId) == t[userId]

\* ------------------------------------------------------------ the state
VARIABLES
    table,    \* users_revenue: user id -> rows (<<>> or <<revenue>>)
    live,     \* the POST /liveEvent requests
    gets,     \* the GET /userEvents/:userId requests
    file,     \* events.jsonl, a sequence of lines
    events,   \* the array getEvents returned to processEvents
    batch,    \* processEvents: its position in the loop
    blog,     \* what became of each event the batch loop has handled so far
    run,      \* the data processor process: the log file, the promise, the pool
    hist,     \* the data processor runs that came before the current one
    cli,      \* client.js: its position in the replay loop
    db        \* DatabaseConnection: the static instance and the pools created

vars == <<table, live, gets, file, events, batch, blog, run, hist, cli, db>>

Reqs == 1..MaxLive
Gets == {"g1"}

NoEvent == Ev(Undefined, Undefined, UndefinedValue)

IdleLive ==
    [pc |-> "idle", token |-> Undefined, body |-> NoEvent, outcome |-> "none",
     responses |-> <<>>]

IdleGet ==
    [pc |-> "idle", userId |-> Undefined, outcome |-> "none", rows |-> <<>>,
     expect |-> <<>>, responses |-> <<>>]

\* ------------------------------------------------------------ what was applied
RECURSIVE SumLive(_, _)
\* the deltas of the live requests of S whose upsert the store applied, for user u
SumLive(S, u) ==
    IF S = {} THEN 0
    ELSE LET r == CHOOSE x \in S : TRUE
             p == QueryParams(live[r].body)
         IN  (IF live[r].outcome = "ok" /\ p.userId = u THEN p.delta.num ELSE 0)
             + SumLive(S \ {r}, u)

RECURSIVE SumBatch(_, _)
\* the deltas of the first k batch events whose upsert the store applied, for user u
SumBatch(k, u) ==
    IF k = 0 THEN 0
    ELSE LET p == QueryParams(events[k])
         IN  (IF blog[k] = "applied" /\ p.userId = u THEN p.delta.num ELSE 0)
             + SumBatch(k - 1, u)

\* whether some upsert for user u has been applied
AnyApplied(u) ==
    \/ \E r \in Reqs : live[r].outcome = "ok" /\ live[r].body.userId = u
    \/ \E k \in 1..Len(blog) : blog[k] = "applied" /\ events[k].userId = u

\* the rows user u should have: none, or the sum of the applied deltas
ExpectedRows(u) ==
    IF AnyApplied(u) THEN <<SumLive(Reqs, u) + SumBatch(Len(blog), u)>> ELSE <<>>

\* ------------------------------------------------------------ the live path
\* mutant: any header that is present passes
authenticateAnyHeader(authHeader) == authHeader # Undefined

\* authenticate: next() is reached only when authHeader === "secret"
authenticate(authHeader) == authHeader = "secret"

\* POST /liveEvent: authenticate, then handleLiveEvent and processEvent up to
\* the await of dbConnection.query
PostLiveEvent(r, tokens, bodies) ==
    /\ live[r].pc = "idle"
    /\ IF r = 1 THEN TRUE ELSE live[r - 1].pc # "idle"
    /\ \E token \in tokens, body \in bodies :
         live' = [live EXCEPT ![r] =
             IF authenticate(token)
             THEN \* const event = req.body
                  [IdleLive EXCEPT !.pc = "querying", !.token = token, !.body = body]
             ELSE \* the handler, and with it req.body, is never reached
                  [IdleLive EXCEPT !.pc = "done", !.token = token,
                                   !.responses = <<Unauthorized401>>]]
    /\ UNCHANGED <<table, gets, file, events, batch, blog, run, hist, cli, db>>

\* the store settles the upsert of live request r: it applies it, or it fails
LiveQuerySettles(r) ==
    /\ live[r].pc = "querying"
    /\ LET p == QueryParams(live[r].body)
       IN  \/ /\ StoreAccepts(p)
              /\ table' = Upsert(table, p.userId, p.delta.num)
              /\ live' = [live EXCEPT ![r].pc = "resolved", ![r].outcome = "ok"]
           \/ /\ table' = table
              /\ live' = [live EXCEPT ![r].pc = "rejected", ![r].outcome = "error"]
    /\ UNCHANGED <<gets, file, events, batch, blog, run, hist, cli, db>>

\* mutant: the handler answers without looking at the outcome of the query
LiveStatusAlwaysOk(pc) == Ok200

\* handleLiveEvent: 200 after the await returned, 500 from the catch
LiveStatus(pc) == IF pc = "resolved" THEN Ok200 ELSE Error500

\* handleLiveEvent resumes after the await and sends the response
handleLiveEvent(r) ==
    /\ live[r].pc \in {"resolved", "rejected"}
    /\ live' = [live EXCEPT ![r].pc = "done",
                            ![r].responses = Append(@, LiveStatus(live[r].pc))]
    /\ UNCHANGED <<table, gets, file, events, batch, blog, run, hist, cli, db>>

\* ------------------------------------------------------------ the lookup
\* GET /userEvents/:userId: handleUserEvents up to the await of the SELECT
GetUserEvents(g) ==
    /\ gets[g].pc = "idle"
    /\ \E u \in Users :
         gets' = [gets EXCEPT ![g] = [IdleGet EXCEPT !.pc = "querying", !.userId = u]]
    /\ UNCHANGED <<table, live, file, events, batch, blog, run, hist, cli, db>>

\* the store settles the SELECT: result.rows, or an error
GetQuerySettles(g) ==
    /\ gets[g].pc = "querying"
    /\ \/ gets' = [gets EXCEPT ![g].pc = "resolved", ![g].outcome = "ok",
                               ![g].rows = SelectRevenue(table, gets[g].userId),
                               ![g].expect = ExpectedRows(gets[g].userId)]
       \/ gets' = [gets EXCEPT ![g].pc = "rejected", ![g].outcome = "error"]
    /\ UNCHANGED <<table, live, file, events, batch, blog, run, hist, cli, db>>

\* handleUserEvents: 404 when result.rows is empty, else the row; 500 from the catch
UserEventsResponse(pc, userId, rows) ==
    IF pc = "rejected" THEN [status |-> Error500, userId |-> Undefined, revenue |-> <<>>]
    ELSE IF Len(rows) = 0
         THEN [status |-> NotFound404, userId |-> Undefined, revenue |-> <<>>]
         ELSE [status |-> Ok200, userId |-> userId, revenue |-> <<rows[1]>>]

\* handleUserEvents resumes after the await and sends the response
handleUserEvents(g) ==
    /\ gets[g].pc \in {"resolved", "rejected"}
    /\ gets' = [gets EXCEPT ![g].pc = "done",
                            ![g].responses = Append(@,
                                UserEventsResponse(gets[g].pc, gets[g].userId, gets[g].rows))]
    /\ UNCHANGED <<table, live, file, events, batch, blog, run, hist, cli, db>>

\* ------------------------------------------------------------ the event log
\* a line of events.jsonl: "" , whitespace only, text that is no JSON, the JSON
\* literal null, or the text of a JSON object (padded with whitespace or not)
Line(kind, pad, event) == [kind |-> kind, pad |-> pad, event |-> event]
EmptyLine == Line("empty", FALSE, NoEvent)
SpacesLine == Line("empty", TRUE, NoEvent)
GarbageLine == Line("garbage", FALSE, NoEvent)
NullLine == Line("null", FALSE, NoEvent)
ObjectLine(e) == Line("object", FALSE, e)
PaddedLine(e) == Line("object", TRUE, e)

\* line.trim(): the surrounding whitespace goes
Trim(line) == [line EXCEPT !.pad = FALSE]

\* line.trim() !== ""
NotBlank(line) == Trim(line) # EmptyLine

\* JSON.parse inside the try: <<value>>, or <<>> for the null the catch returns;
\* the JSON literal null parses to null as well
ParseLine(line) ==
    IF Trim(line).kind = "object" THEN <<Trim(line).event>> ELSE <<>>

\* mutant: the first line that does not parse ends the reading
RECURSIVE getEventsStopAtBadLine(_)
getEventsStopAtBadLine(lines) ==
    IF lines = <<>> THEN <<>>
    ELSE IF ~NotBlank(Head(lines)) THEN getEventsStopAtBadLine(Tail(lines))
    ELSE IF ParseLine(Head(lines)) = <<>> THEN <<>>
    ELSE ParseLine(Head(lines)) \o getEventsStopAtBadLine(Tail(lines))

RECURSIVE getEventsOf(_)
\* split("\n").filter(not blank).map(parse or null).filter(not null)
getEventsOf(lines) ==
    IF lines = <<>> THEN <<>>
    ELSE IF ~NotBlank(Head(lines)) THEN getEventsOf(Tail(lines))
    ELSE ParseLine(Head(lines)) \o getEventsOf(Tail(lines))

\* FileStorageStrategy.getEvents
getEvents(lines) == getEventsOf(lines)

\* ------------------------------------------------------------ the batch path
\* the keys bound in the processingStrategies object literal
Registered == {"add_revenue", "subtract_revenue"}
\* keys every object literal inherits from Object.prototype
Inherited == {"constructor"}

\* mutant: every kind is routed to the revenue strategy
processingStrategiesPermissive(name) == "RevenueProcessingStrategy"

\* this.processingStrategies[event.name]
processingStrategies(name) ==
    IF name \in Registered THEN "RevenueProcessingStrategy"
    ELSE IF name \in Inherited THEN "Object"
    ELSE Undefined

\* mutant: a failed read is swallowed and read as an empty file
readFileNeverRejects(readable) == FALSE

\* await fs.readFile(this.filename, "utf8") rejects when the file cannot be read
readFileRejects(readable) == ~readable

\* processEvents: const events = await this.storageStrategy.getEvents(); a
\* rejected readFile rejects getEvents and with it processEvents
readEvents ==
    /\ batch.pc = "idle"
    /\ IF readFileRejects(run.readable)
       THEN /\ events' = events
            /\ batch' = [batch EXCEPT !.pc = "crashed"]
            /\ run' = [run EXCEPT !.reads = @ + 1, !.promise = "rejected",
                                  !.value = [error |-> "readFile"]]
       ELSE /\ events' = getEvents(file)
            /\ batch' = [pc |-> "loop", i |-> 1]
            /\ run' = [run EXCEPT !.reads = @ + 1]
    /\ UNCHANGED <<table, live, gets, file, blog, hist, cli, db>>

\* processEvents: one turn of the for loop, up to the await inside process
processEvents ==
    /\ batch.pc = "loop"
    /\ IF batch.i > Len(events)
       THEN \* the async function ends without a return: it resolves to undefined
            /\ batch' = [batch EXCEPT !.pc = "done"]
            /\ blog' = blog
            /\ run' = [run EXCEPT !.promise = "fulfilled", !.value = UndefinedValue]
       ELSE LET strategy == processingStrategies(events[batch.i].name)
            IN  IF strategy = Undefined
                THEN /\ batch' = [batch EXCEPT !.i = @ + 1]
                     /\ blog' = Append(blog, "unhandled")
                     /\ run' = run
                ELSE IF strategy = "RevenueProcessingStrategy"
                THEN /\ batch' = [batch EXCEPT !.pc = "querying"]
                     /\ blog' = blog
                     /\ run' = run
                ELSE \* strategy.process is not a function: processEvents rejects
                     /\ batch' = [batch EXCEPT !.pc = "crashed"]
                     /\ blog' = blog
                     /\ run' = [run EXCEPT !.promise = "rejected",
                                           !.value = [error |-> "TypeError"]]
    /\ UNCHANGED <<table, live, gets, file, events, hist, cli, db>>

\* the store settles the upsert of the batch event: it applies it, or it fails
BatchQuerySettles ==
    /\ batch.pc = "querying"
    /\ LET p == QueryParams(events[batch.i])
       IN  \/ /\ StoreAccepts(p)
              /\ table' = Upsert(table, p.userId, p.delta.num)
              /\ batch' = [batch EXCEPT !.pc = "resolved"]
              /\ blog' = Append(blog, "applied")
           \/ /\ table' = table
              /\ batch' = [batch EXCEPT !.pc = "rejected"]
              /\ blog' = Append(blog, "failed")
    /\ UNCHANGED <<live, gets, file, events, run, hist, cli, db>>

\* mutant: process has no try/catch, so a rejected query rejects processEvents
processNoCatch(pc) == IF pc = "rejected" THEN "crashed" ELSE "loop"

\* RevenueProcessingStrategy.process after its await: the log line, or the catch
\* that logs as well; either way process returns and the loop goes on
processReturns(pc) == "loop"

\* process resumes after the await and returns to the for loop
process ==
    /\ batch.pc \in {"resolved", "rejected"}
    /\ batch' = [pc |-> processReturns(batch.pc),
                 i |-> IF processReturns(batch.pc) = "loop" THEN batch.i + 1 ELSE batch.i]
    /\ run' = IF processReturns(batch.pc) = "loop" THEN run
              ELSE [run EXCEPT !.promise = "rejected", !.value = [error |-> "query"]]
    /\ UNCHANGED <<table, live, gets, file, events, blog, hist, cli, db>>

\* dataProcessor.processEvents().then(() => { ...; dbConnection.close(); }): the
\* callback runs once the promise is fulfilled, never when it is rejected
thenClose ==
    /\ run.promise = "fulfilled"
    /\ run.pool = "open"
    /\ run' = [run EXCEPT !.pool = "closed"]
    /\ UNCHANGED <<table, live, gets, file, events, batch, blog, hist, cli, db>>

\* ------------------------------------------------------------ the inputs
\* Authorization headers: the secret, another value, no header
Tokens == {"secret", "wrong", Undefined}

\* request bodies: well-formed events, an unregistered kind, records with a field missing
LiveBodies ==
    { Ev("u1", "add_revenue", Num(10)),
      Ev("u1", "subtract_revenue", Num(3)),
      Ev("u1", "subtract_revenue", Num(10)),
      Ev("u2", "add_revenue", Num(5)),
      Ev("u1", "refund", Num(5)),
      Ev("u1", Undefined, Num(5)),
      Ev("u1", "add_revenue", UndefinedValue),
      Ev(Undefined, "add_revenue", Num(10)) }

\* the events of the runs in which live requests and a batch run interleave
MixBodies ==
    { Ev("u1", "add_revenue", Num(10)),
      Ev("u1", "subtract_revenue", Num(3)),
      Ev("u2", "add_revenue", Num(5)) }

MixLinePool == { ObjectLine(e) : e \in MixBodies }

\* the lines of the batch-only runs
BatchLinePool ==
    { EmptyLine, SpacesLine, GarbageLine, NullLine,
      ObjectLine(Ev("u1", "add_revenue", Num(10))),
      PaddedLine(Ev("u1", "add_revenue", Num(5))),
      ObjectLine(Ev("u2", "subtract_revenue", Num(3))),
      ObjectLine(Ev("u1", "refund", Num(5))),
      ObjectLine(Ev("u1", "constructor", Num(5))),
      ObjectLine(Ev("u1", Undefined, Num(5))),
      ObjectLine(Ev("u1", "add_revenue", UndefinedValue)) }

\* the logs of at most n lines drawn from pool
FilesOf(pool, n) == UNION { [1..k -> pool] : k \in 0..n }

\* ------------------------------------------------------------ specifications
\* the data processor process before processEvents is called
NewRun(readable) ==
    [readable |-> readable, reads |-> 0, promise |-> "pending",
     value |-> UndefinedValue, pool |-> "open"]

\* no earlier run of the data processor
NoHist == [remaining |-> {}, prior |-> [u \in Users |-> <<>>], clean |-> TRUE]

\* client.js before processEvents is called
IdleClient == [pc |-> "idle", i |-> 1, events |-> <<>>, posts |-> <<>>, log |-> <<>>]

\* no DatabaseConnection constructed yet
NoDb == [instance |-> <<>>, pools |-> <<>>, handles |-> <<>>, calls |-> <<>>]

InitCommon ==
    /\ table = [u \in Users |-> <<>>]
    /\ live = [r \in Reqs |-> IdleLive]
    /\ gets = [g \in Gets |-> IdleGet]
    /\ events = <<>>
    /\ batch = [pc |-> "idle", i |-> 1]
    /\ blog = <<>>
    /\ hist = NoHist
    /\ cli = IdleClient
    /\ db = NoDb

\* the server and the data processor run against the same table
Init == InitCommon /\ file \in FilesOf(MixLinePool, MixLines) /\ run = NewRun(TRUE)

Next ==
    \/ \E r \in Reqs : PostLiveEvent(r, {"secret"}, MixBodies)
    \/ \E r \in Reqs : LiveQuerySettles(r)
    \/ \E r \in Reqs : handleLiveEvent(r)
    \/ readEvents
    \/ processEvents
    \/ BatchQuerySettles
    \/ process
    \/ thenClose

Spec == Init /\ [][Next]_vars

\* the server alone: live requests and lookups
InitLive == InitCommon /\ file = <<>> /\ run = NewRun(TRUE)

NextLive ==
    \/ \E r \in Reqs : PostLiveEvent(r, Tokens, LiveBodies)
    \/ \E r \in Reqs : LiveQuerySettles(r)
    \/ \E r \in Reqs : handleLiveEvent(r)
    \/ \E g \in Gets : GetUserEvents(g)
    \/ \E g \in Gets : GetQuerySettles(g)
    \/ \E g \in Gets : handleUserEvents(g)

SpecLive == InitLive /\ [][NextLive]_vars

\* the data processor alone
\* the log is readable and holds some lines, or it cannot be read at all
InitBatch ==
    /\ InitCommon
    /\ \/ file \in FilesOf(BatchLinePool, MaxLines) /\ run = NewRun(TRUE)
       \/ file = <<>> /\ run = NewRun(FALSE)

NextBatch ==
    \/ readEvents
    \/ processEvents
    \/ BatchQuerySettles
    \/ process
    \/ thenClose

SpecBatch == InitBatch /\ [][NextBatch]_vars

\* ------------------------------------------------------------ type invariant
TypeOK ==
    /\ \A u \in Users : table[u] = <<>> \/ (Len(table[u]) = 1 /\ table[u][1] \in Int)
    /\ \A r \in Reqs : live[r].pc \in {"idle", "querying", "resolved", "rejected", "done"}
    /\ batch.pc \in {"idle", "loop", "querying", "resolved", "rejected", "done", "crashed"}
    /\ Len(blog) <= Len(events)

\* ------------------------------------------------------------ arithmetic of the claims
\* +value for add_revenue, -value for subtract_revenue
SignedValue(e) == IF e.name = "add_revenue" THEN e.value.num ELSE 0 - e.value.num

\* an add_revenue or subtract_revenue event with all its fields
IsRevenueEvent(e) == e.name \in {"add_revenue", "subtract_revenue"} /\ ~HasMissing(e)

RECURSIVE SignedSumSeq(_, _)
\* the signed sum of the revenue events of sequence q for user u
SignedSumSeq(q, u) ==
    IF q = <<>> THEN 0
    ELSE (IF IsRevenueEvent(Head(q)) /\ Head(q).userId = u THEN SignedValue(Head(q)) ELSE 0)
         + SignedSumSeq(Tail(q), u)

RECURSIVE SubmittedSeq(_)
\* the events of the live requests that reached the handler, as a sequence
SubmittedSeq(S) ==
    IF S = {} THEN <<>>
    ELSE LET r == CHOOSE x \in S : TRUE
         IN  (IF live[r].pc # "idle" /\ live[r].token = "secret"
              THEN <<live[r].body>> ELSE <<>>) \o SubmittedSeq(S \ {r})

\* the rows a sequence of events adds up to for user u
RowsOf(q, u) ==
    IF \E k \in 1..Len(q) : IsRevenueEvent(q[k]) /\ q[k].userId = u
    THEN <<SignedSumSeq(q, u)>> ELSE <<>>

\* the events of the object lines of a log, in file order
ObjectEvents(lines) ==
    LET sel == SelectSeq(lines, LAMBDA l : l.kind = "object")
    IN  [k \in 1..Len(sel) |-> sel[k].event]

\* every request has its response and the batch run has ended
Settled ==
    /\ \A r \in Reqs : live[r].pc \in {"idle", "done"}
    /\ batch.pc = "done"

NoUpsertFailed ==
    /\ \A r \in Reqs : live[r].outcome # "error"
    /\ \A k \in 1..Len(blog) : blog[k] # "failed"

\* the table holds, for every user, exactly the applied deltas
TableIsSumOfApplied == \A u \in Users : table[u] = ExpectedRows(u)

\* ------------------------------------------------------------ the claims
\* C1: when live requests and a batch run have all ended and every upsert
\* succeeded, each user's balance is the sum of +value for add_revenue and
\* -value for subtract_revenue over all the events, whatever the interleaving.
C1_NoLostUpdate ==
    (Settled /\ NoUpsertFailed) =>
        \A u \in Users : table[u] = RowsOf(SubmittedSeq(Reqs) \o ObjectEvents(file), u)

\* C1 witness: +10 live and -3 in the log, on the absent user u1, end at 7
C1_Witness ==
    /\ Settled /\ NoUpsertFailed
    /\ \E r \in Reqs : live[r].body = Ev("u1", "add_revenue", Num(10)) /\ live[r].outcome = "ok"
    /\ events = <<Ev("u1", "subtract_revenue", Num(3))>>
    /\ table["u1"] = <<7>>

\* C2: in every state a user has a row iff some upsert for the user succeeded,
\* and the row holds the sum of the deltas of exactly the successful upserts.
C2_BalanceInvariant == TableIsSumOfApplied

\* C2 witness: one upsert failed, two succeeded, and the row is their sum
C2_Witness ==
    /\ \E r \in Reqs : live[r].outcome = "error" /\ live[r].body.userId = "u1"
    /\ \E r \in Reqs : live[r].outcome = "ok" /\ live[r].body.userId = "u1"
    /\ blog = <<"applied">> /\ events[1].userId = "u1"
    /\ table["u2"] = <<>>
    /\ table["u1"] # <<>>

\* what the batch path hands to the store for an event: nothing without a strategy
BatchQuery(e) ==
    IF processingStrategies(e.name) = "RevenueProcessingStrategy"
    THEN <<QueryParams(e)>> ELSE <<>>

\* C3 (as claimed): a decoded event changes the store through the live path
\* exactly as through the batch path; without a registered strategy it changes
\* nothing on either path.
C3_SamePipeline ==
    \A r \in Reqs :
        (live[r].outcome = "ok" /\ ~HasMissing(live[r].body))
            => BatchQuery(live[r].body) = <<QueryParams(live[r].body)>>

\* C4: a line that is no JSON is skipped and the reading goes on: the events
\* are those of the object lines in file order, blank lines are ignored, and a
\* run that ends with every upsert applied leaves the sum of the well-formed
\* revenue events (10, NOT JSON, 5 for u1 gives 15).
C4_MalformedLineSkipped ==
    batch.pc # "idle" =>
        /\ events = ObjectEvents(file)
        /\ (batch.pc = "done" /\ NoUpsertFailed) =>
               \A u \in Users : table[u] = RowsOf(ObjectEvents(file), u)

\* C4 witness: the log add 10 / NOT JSON / add 5 for u1 has ended at 15
C4_Witness ==
    /\ file = <<ObjectLine(Ev("u1", "add_revenue", Num(10))), GarbageLine,
                PaddedLine(Ev("u1", "add_revenue", Num(5)))>>
    /\ batch.pc = "done"
    /\ blog = <<"applied", "applied">>
    /\ table["u1"] = <<15>>

\* the loop has taken up event k
TakenUp(k) ==
    /\ batch.pc # "idle"
    /\ batch.i > k \/ (batch.i = k /\ batch.pc # "loop")

\* C5 (as claimed): a batch event of any kind other than add_revenue and
\* subtract_revenue is skipped without an upsert and the loop goes on to the
\* next event.
C5_UnregisteredKindSkipped ==
    \A k \in 1..Len(events) :
        (events[k].name \notin {"add_revenue", "subtract_revenue"} /\ TakenUp(k))
            => /\ batch.i > k
               /\ Len(blog) >= k
               /\ blog[k] = "unhandled"

\* C6 (as claimed): a record with a field missing never reaches the store; the
\* live request that carries one gets no upsert issued for it.
C6_MissingFieldNeverReachesStore ==
    \A r \in Reqs :
        (live[r].pc # "idle" /\ live[r].token = "secret" /\ HasMissing(live[r].body))
            => /\ live[r].pc \notin {"querying", "resolved", "rejected"}
               /\ live[r].outcome = "none"

\* C7: an authorized live request gets exactly one response; it is 200 only if
\* its upsert succeeded and 500 whenever its upsert failed; the request issues
\* one upsert at most, and a failed one leaves every balance as it was.
C7_LiveOutcome ==
    /\ \A r \in Reqs :
        (live[r].pc # "idle" /\ live[r].token = "secret") =>
            /\ Len(live[r].responses) = (IF live[r].pc = "done" THEN 1 ELSE 0)
            /\ live[r].pc = "done" =>
                  /\ live[r].responses[1] = Ok200 <=> live[r].outcome = "ok"
                  /\ live[r].responses[1] = Error500 <=> live[r].outcome = "error"
    /\ TableIsSumOfApplied

\* C7 witness: an authorized request whose upsert failed was answered 500, once,
\* and no balance has changed
C7_Witness ==
    /\ live[1].token = "secret" /\ live[1].pc = "done"
    /\ live[1].body = Ev("u1", "add_revenue", Num(10))
    /\ live[1].outcome = "error"
    /\ live[1].responses = <<Error500>>
    /\ \A u \in Users : table[u] = <<>>

\* C8: a live request whose Authorization header is not exactly "secret" is
\* answered 401 and nothing else, no upsert is issued for it, and every upsert
\* the live path applied comes from a request that carried "secret".
C8_UnauthorizedRejected ==
    /\ \A r \in Reqs :
        (live[r].pc # "idle" /\ live[r].token # "secret") =>
            /\ live[r].pc = "done"
            /\ live[r].responses = <<Unauthorized401>>
            /\ live[r].outcome = "none"
    /\ \A r \in Reqs : live[r].outcome # "none" => live[r].token = "secret"
    /\ (\A r \in Reqs : live[r].token # "secret") => \A u \in Users : table[u] = <<>>

\* C8 witness: a request with another header value and one without a header
\* were both answered 401 and the table is still empty
C8_Witness ==
    /\ live[1].token = "wrong" /\ live[1].responses = <<Unauthorized401>>
    /\ live[2].token = Undefined /\ live[2].responses = <<Unauthorized401>>
    /\ \A u \in Users : table[u] = <<>>

\* C9: a lookup whose SELECT ran for a user without any applied delta answers
\* 404, never a row; for a user with applied deltas it answers that user's row,
\* revenue 0 included; and the lookup leaves the table as the upserts made it.
C9_LookupNotFound ==
    /\ \A g \in Gets :
        gets[g].pc = "done" =>
            LET resp == gets[g].responses[1]
            IN  /\ Len(gets[g].responses) = 1
                /\ resp.status = Ok200 =>
                      /\ gets[g].outcome = "ok"
                      /\ gets[g].expect # <<>>
                      /\ resp.revenue = gets[g].expect
                      /\ resp.userId = gets[g].userId
                /\ (gets[g].outcome = "ok" /\ gets[g].expect = <<>>)
                      => resp.status = NotFound404
                /\ (gets[g].outcome = "ok" /\ gets[g].expect # <<>>)
                      => resp.status = Ok200
    /\ TableIsSumOfApplied

\* C9 witness: u2 was looked up and answered 404 while u1 has a row
C9_Witness ==
    /\ gets["g1"].pc = "done" /\ gets["g1"].userId = "u2"
    /\ gets["g1"].responses[1].status = NotFound404
    /\ table["u1"] # <<>> /\ table["u2"] = <<>>

\* C10: in a batch run a failed upsert is not applied and does not stop the
\* run: the loop goes on to the next record, a run that ends has handled every
\* record, and the table holds exactly the deltas of the upserts that succeeded.
C10_StorageFailureContinues ==
    /\ \A k \in 1..Len(blog) :
        blog[k] = "failed" => (batch.i > k \/ (batch.i = k /\ batch.pc = "rejected"))
    /\ batch.pc = "done" => Len(blog) = Len(events)
    /\ TableIsSumOfApplied

\* C10 witness: the first upsert failed, the second was applied, the run ended
C10_Witness ==
    /\ batch.pc = "done"
    /\ events = <<Ev("u1", "add_revenue", Num(10)), Ev("u1", "add_revenue", Num(5))>>
    /\ blog = <<"failed", "applied">>
    /\ table["u1"] = <<5>>

\* ------------------------------------------------------------ the batch run as a whole
RECURSIVE Count(_, _)
\* how many entries of sequence q equal x
Count(q, x) ==
    IF q = <<>> THEN 0 ELSE (IF Head(q) = x THEN 1 ELSE 0) + Count(Tail(q), x)

\* the summary the batch run is said to report
Summary ==
    [applied |-> Count(blog, "applied"),
     skippedUnhandledKind |-> Count(blog, "unhandled"),
     failedDecode |-> Len(SelectSeq(file, NotBlank)) - Len(events),
     failedStorage |-> Count(blog, "failed")]

\* C11 (as claimed): a batch run that ends hands its caller the summary
\* {applied, skippedUnhandledKind, failedDecode, failedStorage} of what became
\* of the records, so a storage failure is visible to the caller.
C11_SummaryReported ==
    run.promise = "fulfilled" => run.value = Summary

\* C12: when the log cannot be read the batch run fails as a whole: its promise
\* is rejected with the read error, the file was read once and not again, no
\* event was taken up, no upsert was issued and no balance has changed.
C12_UnreadableLogFails ==
    /\ run.reads <= 1
    /\ (~run.readable /\ batch.pc # "idle") =>
          /\ run.promise = "rejected"
          /\ run.value = [error |-> "readFile"]
          /\ batch.pc = "crashed"
          /\ events = <<>> /\ blog = <<>>
          /\ \A u \in Users : table[u] = <<>>

\* C12 witness: the read of an unreadable log was tried and the run was rejected
C12_Witness ==
    /\ ~run.readable
    /\ run.reads = 1
    /\ run.promise = "rejected"

\* C13 (as claimed): every batch run over a readable log ends with the pool
\* closed, after every event was handled once, in order, one upsert at a time,
\* and nothing is issued after the close.
C13_BatchTerminatesAndCloses ==
    /\ run.readable => (run.pool = "closed" \/ ENABLED NextBatch)
    /\ run.pool = "closed" => (batch.pc = "done" /\ Len(blog) = Len(events))
    /\ batch.pc \in {"querying", "loop"} => Len(blog) = batch.i - 1
    /\ batch.pc \in {"resolved", "rejected"} => Len(blog) = batch.i

\* ------------------------------------------------------------ several batch runs
\* the sample log of the README (user1 and user2 written u1 and u2)
SampleLog ==
    << ObjectLine(Ev("u1", "add_revenue", Num(98))),
       ObjectLine(Ev("u1", "subtract_revenue", Num(72))),
       ObjectLine(Ev("u2", "add_revenue", Num(70))) >>

\* the lines of log with an index in S, in file order
LinesAt(log, S) == SelectSeq([k \in 1..Len(log) |-> IF k \in S THEN <<log[k]>> ELSE <<>>],
                             LAMBDA x : x # <<>>)

RECURSIVE Flatten(_)
Flatten(q) == IF q = <<>> THEN <<>> ELSE Head(q) \o Flatten(Tail(q))

\* the log a run gets: the sample lines with an index in S
RunFile(S) == Flatten(LinesAt(SampleLog, S))

\* node data_processor.js is started again, after the run before it has ended,
\* on a log with some of the lines no run has had yet
nextRun ==
    /\ run.pool = "closed"
    /\ hist.remaining # {}
    /\ \E S \in SUBSET hist.remaining :
         /\ S # {}
         /\ file' = RunFile(S)
         /\ hist' = [remaining |-> hist.remaining \ S,
                     prior |-> table,
                     clean |-> hist.clean /\ Count(blog, "failed") = 0]
    /\ events' = <<>>
    /\ blog' = <<>>
    /\ batch' = [pc |-> "idle", i |-> 1]
    /\ run' = NewRun(TRUE)
    /\ UNCHANGED <<table, live, gets, cli, db>>

\* the first run has some of the sample lines, the later runs the others
InitRuns ==
    /\ table = [u \in Users |-> <<>>]
    /\ live = [r \in Reqs |-> IdleLive]
    /\ gets = [g \in Gets |-> IdleGet]
    /\ events = <<>>
    /\ batch = [pc |-> "idle", i |-> 1]
    /\ blog = <<>>
    /\ cli = IdleClient
    /\ db = NoDb
    /\ run = NewRun(TRUE)
    /\ \E S \in SUBSET (1..Len(SampleLog)) :
         /\ S # {}
         /\ file = RunFile(S)
         /\ hist = [NoHist EXCEPT !.remaining = (1..Len(SampleLog)) \ S]

NextRuns ==
    \/ readEvents
    \/ processEvents
    \/ BatchQuerySettles
    \/ process
    \/ thenClose
    \/ nextRun

SpecRuns == InitRuns /\ [][NextRuns]_vars

\* rows a plus rows b
AddRows(a, b) ==
    IF b = <<>> THEN a ELSE IF a = <<>> THEN b ELSE <<a[1] + b[1]>>

\* C14: a batch run in which every upsert succeeded leaves each user at the
\* balance before the run plus the signed sum of the user's events in the log,
\* and leaves the users without an event in the log as they were (98, -72 for
\* u1 and 70 for u2 on an empty table give 26 and 70).
C14_BatchResultAndFrame ==
    (batch.pc = "done" /\ Count(blog, "failed") = 0) =>
        \A u \in Users :
            table[u] = AddRows(hist.prior[u], RowsOf(ObjectEvents(file), u))

\* C14 witness: the whole sample log, run on the empty table, ended at 26 and 70
C14_Witness ==
    /\ file = SampleLog
    /\ batch.pc = "done"
    /\ blog = <<"applied", "applied", "applied">>
    /\ hist.prior = [u \in Users |-> <<>>]
    /\ table = [u \in Users |-> IF u = "u1" THEN <<26>> ELSE <<70>>]

\* C15: when the events of a log are split over several batch runs, in any
\* partition and order, each event in one run and every upsert succeeding, the
\* balances after the last run are those of one run over the whole log.
C15_SplitRunsAgree ==
    (hist.remaining = {} /\ batch.pc = "done" /\ hist.clean /\ Count(blog, "failed") = 0)
        => \A u \in Users : table[u] = RowsOf(ObjectEvents(SampleLog), u)

\* C15 witness: the subtraction ran first, alone, the additions in a later run
C15_Witness ==
    /\ hist.remaining = {} /\ hist.clean
    /\ hist.prior = [u \in Users |-> IF u = "u1" THEN <<0 - 72>> ELSE <<>>]
    /\ Len(file) = 2
    /\ batch.pc = "done" /\ Count(blog, "failed") = 0
    /\ table = [u \in Users |-> IF u = "u1" THEN <<26>> ELSE <<70>>]

\* ------------------------------------------------------------ DatabaseConnection
\* the configurations a construction may be given
Configs == {"dbConfig", "otherConfig", Undefined}

\* mutant: the constructor does not look at DatabaseConnection.instance
instanceNeverSet(d) == FALSE

\* if (DatabaseConnection.instance)
instanceSet(d) == d.instance # <<>>

\* new DatabaseConnection(config): the k-th construction allocates object k;
\* handles records the object the new-expression evaluates to, pools the
\* configuration of every Pool created
newDatabaseConnection(config) ==
    /\ Len(db.calls) < MaxNew
    /\ LET this == Len(db.calls) + 1 IN
         IF instanceSet(db)
         THEN db' = [db EXCEPT !.calls = Append(@, config),
                               !.handles = Append(@, db.instance[1])]
         ELSE db' = [db EXCEPT !.calls = Append(@, config),
                               !.pools = Append(@, config),
                               !.instance = <<this>>,
                               !.handles = Append(@, this)]
    /\ UNCHANGED <<table, live, gets, file, events, batch, blog, run, hist, cli>>

InitSingleton ==
    /\ InitCommon
    /\ file = <<>>
    /\ run = NewRun(TRUE)

NextSingleton == \E config \in Configs : newDatabaseConnection(config)

SpecSingleton == InitSingleton /\ [][NextSingleton]_vars

\* C16: however often DatabaseConnection is constructed, and with whatever
\* configurations, at most one pool is created, it has the configuration of
\* the first construction, and every construction yields the first instance.
C16_SingletonPool ==
    /\ Len(db.pools) <= 1
    /\ db.calls # <<>> =>
          /\ db.pools = <<db.calls[1]>>
          /\ db.instance = <<1>>
          /\ Len(db.handles) = Len(db.calls)
          /\ \A k \in 1..Len(db.handles) : db.handles[k] = 1

\* C16 witness: constructed again with another configuration, still one pool
C16_Witness ==
    /\ Len(db.calls) >= 3
    /\ db.calls[1] = "dbConfig" /\ db.calls[2] = "otherConfig" /\ db.calls[3] = Undefined
    /\ db.pools = <<"dbConfig">>
    /\ db.handles[3] = 1

\* ------------------------------------------------------------ the delta on both paths
\* the bodies of the live request: an addition, a subtraction, a kind that is
\* not registered, no kind at all
DeltaBodies ==
    { Ev("u1", "add_revenue", Num(10)),
      Ev("u2", "subtract_revenue", Num(3)),
      Ev("u1", "refund", Num(5)),
      Ev("u2", Undefined, Num(5)) }

DeltaLinePool ==
    { ObjectLine(Ev("u1", "add_revenue", Num(10))),
      ObjectLine(Ev("u1", "subtract_revenue", Num(3))),
      ObjectLine(Ev("u2", "refund", Num(5))) }

InitDelta == InitCommon /\ file \in FilesOf(DeltaLinePool, MixLines) /\ run = NewRun(TRUE)

\* one live request and a batch run against the same table
NextDelta ==
    \/ PostLiveEvent(1, {"secret"}, DeltaBodies)
    \/ LiveQuerySettles(1)
    \/ handleLiveEvent(1)
    \/ readEvents
    \/ processEvents
    \/ BatchQuerySettles
    \/ process
    \/ thenClose

SpecDelta == InitDelta /\ [][NextDelta]_vars

\* the table after the row of e's user has been incremented by d
Incremented(t, e, d) == [t EXCEPT ![e.userId] = AddRows(@, <<d>>)]

\* C17: the delta of an event that reaches the upsert, on the live path and in
\* the batch strategy, is +value when its name is "add_revenue" and -value for
\* any other name; the step in which the store applies the upsert changes the
\* table by exactly that delta on the row of the event's user.
C17_DeltaRule ==
    [][ /\ (live[1].pc = "querying" /\ live'[1].outcome = "ok") =>
              table' = Incremented(table, live[1].body, SignedValue(live[1].body))
        /\ (batch.pc = "querying" /\ batch'.pc = "resolved") =>
              table' = Incremented(table, events[batch.i], SignedValue(events[batch.i]))
      ]_vars

\* C17 witness: a live event of another kind was applied as a subtraction and
\* the batch run applied a subtraction
C17_Witness ==
    /\ live[1].body = Ev("u1", "refund", Num(5))
    /\ live[1].outcome = "ok"
    /\ \E k \in 1..Len(blog) : blog[k] = "applied" /\ events[k].name = "subtract_revenue"
    /\ table["u1"] = <<0 - 8>>

\* ------------------------------------------------------------ lookups among writes
ReadBodies ==
    { Ev("u1", "add_revenue", Num(10)),
      Ev("u2", "subtract_revenue", Num(3)) }

ReadLinePool == { ObjectLine(Ev("u1", "subtract_revenue", Num(3))) }

InitRead == InitCommon /\ file \in FilesOf(ReadLinePool, MixLines) /\ run = NewRun(TRUE)

\* live requests, a lookup and a batch run against the same table
NextRead ==
    \/ \E r \in Reqs : PostLiveEvent(r, {"secret"}, ReadBodies)
    \/ \E r \in Reqs : LiveQuerySettles(r)
    \/ \E r \in Reqs : handleLiveEvent(r)
    \/ \E g \in Gets : GetUserEvents(g)
    \/ \E g \in Gets : GetQuerySettles(g)
    \/ \E g \in Gets : handleUserEvents(g)
    \/ readEvents
    \/ processEvents
    \/ BatchQuerySettles
    \/ process
    \/ thenClose

SpecRead == InitRead /\ [][NextRead]_vars

\* live request r has been answered 200 and its event is for user u
Accepted(r, u) == live[r].responses = <<Ok200>> /\ live[r].body.userId = u

\* C18: a live event is answered 200 only after its upsert was applied, so a
\* lookup whose SELECT is answered when a live event of the same user has
\* already been answered 200 (the lookups issued after that answer are among
\* them) reads a row, and the row holds every delta applied so far, that
\* event's included, whatever other live requests and the batch run have done.
C18_ReadYourWrites ==
    [][ \A g \in Gets : \A r \in Reqs :
          (/\ gets[g].pc = "querying"
           /\ gets'[g].pc = "resolved"
           /\ Accepted(r, gets[g].userId))
          => /\ live[r].outcome = "ok"
             /\ gets'[g].rows # <<>>
             /\ gets'[g].rows = ExpectedRows(gets[g].userId)
      ]_vars

\* C18 witness: a lookup for u1 read 7 after the live addition of 10 was
\* answered 200 and the batch run had subtracted 3
C18_Witness ==
    /\ Accepted(1, "u1")
    /\ blog = <<"applied">>
    /\ gets["g1"].pc = "done"
    /\ gets["g1"].responses = <<[status |-> Ok200, userId |-> "u1", revenue |-> <<7>>]>>

\* ------------------------------------------------------------ the replay client
\* client.js processEvents: const events = await eventRepository.getEvents()
clientGetEvents ==
    /\ cli.pc = "idle"
    /\ cli' = [cli EXCEPT !.pc = "loop", !.events = getEvents(file)]
    /\ UNCHANGED <<table, live, gets, file, events, batch, blog, run, hist, db>>

\* sendEvent: axios.post(SERVER_URL, event, ...) is called for the event the
\* for loop is at
sendEvent ==
    /\ cli.pc = "loop"
    /\ cli.i <= Len(cli.events)
    /\ cli' = [cli EXCEPT !.pc = "posting", !.posts = Append(@, cli.events[cli.i])]
    /\ UNCHANGED <<table, live, gets, file, events, batch, blog, run, hist, db>>

\* the request slot of the server the POST in flight takes: the posts before it
\* that reached the server took the slots before it
Slot == Len(cli.posts) - Count(cli.log, "network")

\* the POST in flight reaches the server, with the header Authorization: secret
clientPostArrives ==
    /\ cli.pc = "posting"
    /\ Slot \in Reqs
    /\ PostLiveEvent(Slot, {"secret"}, {cli.events[cli.i]})

\* mutant: sendEvent has no try/catch, a failed send rejects processEvents
sendEventNoCatch(outcome) == IF outcome = "sent" THEN "loop" ELSE "crashed"

\* sendEvent logs the success, or the error in its catch, and returns
sendEventReturns(outcome) == "loop"

\* what the await of axios.post yields for a response: a 2xx status resolves,
\* any other status rejects
AxiosOutcome(status) == IF status = Ok200 THEN "sent" ELSE "status"

\* the response of the server reaches the client: sendEvent returns to the loop
sendEventResponse ==
    /\ cli.pc = "posting"
    /\ Slot \in Reqs
    /\ live[Slot].pc = "done"
    /\ LET outcome == AxiosOutcome(live[Slot].responses[1])
       IN  cli' = [cli EXCEPT !.pc = sendEventReturns(outcome),
                              !.log = Append(@, outcome),
                              !.i = @ + 1]
    /\ UNCHANGED <<table, live, gets, file, events, batch, blog, run, hist, db>>

\* the connection fails before the request reaches the server: axios.post rejects
sendEventRefused ==
    /\ cli.pc = "posting"
    /\ Slot \in Reqs
    /\ live[Slot].pc = "idle"
    /\ cli' = [cli EXCEPT !.pc = sendEventReturns("network"),
                          !.log = Append(@, "network"),
                          !.i = @ + 1]
    /\ UNCHANGED <<table, live, gets, file, events, batch, blog, run, hist, db>>

\* the for loop is over: processEvents resolves, "All events processed"
clientDone ==
    /\ cli.pc = "loop"
    /\ cli.i > Len(cli.events)
    /\ cli' = [cli EXCEPT !.pc = "done"]
    /\ UNCHANGED <<table, live, gets, file, events, batch, blog, run, hist, db>>

ReplayLinePool ==
    { GarbageLine,
      ObjectLine(Ev("u1", "add_revenue", Num(10))),
      ObjectLine(Ev("u1", "subtract_revenue", Num(3))),
      ObjectLine(Ev("u2", "refund", Num(5))) }

\* the client and the data processor read the same events.jsonl
InitReplay == InitCommon /\ file \in FilesOf(ReplayLinePool, MaxLive) /\ run = NewRun(TRUE)

\* the client, and the server as far as the client's requests drive it
ClientNext ==
    \/ clientGetEvents
    \/ sendEvent
    \/ clientPostArrives
    \/ sendEventResponse
    \/ sendEventRefused
    \/ clientDone
    \/ \E r \in Reqs : LiveQuerySettles(r)
    \/ \E r \in Reqs : handleLiveEvent(r)

NextReplay ==
    \/ ClientNext
    \/ readEvents
    \/ processEvents
    \/ BatchQuerySettles
    \/ process
    \/ thenClose

SpecReplay == InitReplay /\ [][NextReplay]_vars

\* every send of the client was answered 200 and the client has ended
AllSent == cli.pc = "done" /\ Count(cli.log, "sent") = Len(cli.events)

\* the batch run has ended and applied every event of the log
AllApplied == batch.pc = "done" /\ Count(blog, "applied") = Len(events)

\* C19: nothing deduplicates events: once the client has sent every event of
\* the log to the live path and the data processor has applied every event of
\* the same log, in whatever order the two ran, each user's balance is twice
\* the signed sum of the user's events in the log.
C19_AppliedTwice ==
    (AllSent /\ AllApplied) =>
        /\ events = cli.events
        /\ \A u \in Users : table[u] = RowsOf(events \o events, u)

\* C19 witness: a log adding 10 and subtracting 3 for u1, sent by the client
\* and run by the data processor, leaves 14
C19_Witness ==
    /\ AllSent /\ AllApplied
    /\ Len(events) = 2
    /\ table["u1"] = <<14>>

\* the requests the server is handling
InFlight == {r \in Reqs : live[r].pc \in {"querying", "resolved", "rejected"}}

\* C20: the client posts the decodable events of the log one at a time in
\* file order: a POST is issued only after the one before it was answered or
\* failed, each event is posted once and a failed send is logged and not
\* repeated, a failed send does not keep the later events from being sent,
\* and the client ends after the last event.
C20_ClientReplay ==
    /\ cli.pc # "idle" => cli.events = ObjectEvents(file)
    /\ Len(cli.posts) <= Len(cli.events)
    /\ cli.posts = SubSeq(cli.events, 1, Len(cli.posts))
    /\ Len(cli.log) = cli.i - 1
    /\ Len(cli.posts) = (IF cli.pc = "posting" THEN cli.i ELSE cli.i - 1)
    /\ Cardinality(InFlight) <= 1
    /\ InFlight # {} => cli.pc = "posting"
    /\ cli.pc = "done" => Len(cli.posts) = Len(cli.events)
    /\ cli.pc \in {"idle", "loop", "posting", "done"}
    /\ cli.pc = "done" \/ ENABLED ClientNext

\* C20 witness: the first send failed, the second was answered 200, the
\* client ended
C20_Witness ==
    /\ cli.pc = "done"
    /\ Len(cli.events) = 2
    /\ cli.posts = cli.events
    /\ cli.log[1] \in {"network", "status"}
    /\ cli.log[2] = "sent"

====
